---------------------------- MODULE Spec2Model ----------------------------
(***************************************************************************)
(* Model of src/agent.py: the weekend window, the Spanish date parser, the *)
(* year attachment, the tempoclub.es listing parser, the per-source        *)
(* collection loop, the weekend filter and the final sort.                 *)
(*                                                                         *)
(* Strings are sequences of one-character strings, so that lower(),        *)
(* replace(), int(), substring tests and Python's string ordering are      *)
(* computed character by character.  A text is the sequence of its         *)
(* whitespace-separated tokens.  A calendar date is a record               *)
(* [kind |-> "date", year, month, day]; None and a raised ValueError are   *)
(* the records [kind |-> "None"] and [kind |-> "ValueError"].              *)
(***************************************************************************)
EXTENDS Integers, Sequences, FiniteSets, TLC

VARIABLES
    pc,               \* position of the modelled run
    today,            \* today_madrid: datetime.now(Europe/Madrid).date()
    friday, saturday, \* the result of madrid_weekend_window
    s, d0, d,         \* parse_spanish_date_str input / result, attach_year result
    source, html, st, \* parse_events_from_tempo_club: arguments and loop locals
    hist,             \* history: one record per date-header line the loop handled
    venues, web,      \* collect_events: the sources, and what each fetch yields
    vi, all_events,   \* collect_events: loop position and accumulated events
    weekend_events,   \* main: result of filter_for_this_weekend
    dance_events      \* main: the danceable events, then sorted in place

vars == <<pc, today, friday, saturday, s, d0, d, source, html, st, hist,
          venues, web, vi, all_events, weekend_events, dance_events>>

-----------------------------------------------------------------------------
(* Bounds of the model *)

\* years from which the window specification draws today_madrid
WinFirstYear == 2024
WinYears == 3
\* longest free-form token sequence given to parse_spanish_date_str
MaxTokens == 2
\* longest document (elements) given to parse_events_from_tempo_club
MaxElems == 4
\* longest list of sources given to collect_events
MaxVenues == 2
\* longest event list given to the filter / sort pipeline
MaxEvents == 3

-----------------------------------------------------------------------------
(* Python values *)

None == [kind |-> "None"]
ValueError == [kind |-> "ValueError"]

\* the placeholder year of year-less dates
PlaceholderYear == 1900

Digits == <<"0", "1", "2", "3", "4", "5", "6", "7", "8", "9">>
DigitSet == {Digits[k] : k \in 1..10}
DigitVal(c) == (CHOOSE k \in 1..10 : Digits[k] = c) - 1

AsciiLower == <<"a","b","c","d","e","f","g","h","i","j","k","l","m",
                "n","o","p","q","r","s","t","u","v","w","x","y","z">>
AsciiUpper == <<"A","B","C","D","E","F","G","H","I","J","K","L","M",
                "N","O","P","Q","R","S","T","U","V","W","X","Y","Z">>
AccentLower == <<"á","é","í","ó","ú">>
AccentUpper == <<"Á","É","Í","Ó","Ú">>
AccentPlain == <<"a","e","i","o","u">>

\* the regex class [a-záéíóú]
LetterSet == {AsciiLower[k] : k \in 1..26} \cup {AccentLower[k] : k \in 1..5}

\* str.lower(), one character
LowerChar(c) ==
    IF \E k \in 1..26 : AsciiUpper[k] = c
    THEN AsciiLower[CHOOSE k \in 1..26 : AsciiUpper[k] = c]
    ELSE IF \E k \in 1..5 : AccentUpper[k] = c
    THEN AccentLower[CHOOSE k \in 1..5 : AccentUpper[k] = c]
    ELSE c

\* str.lower() of a token and of a text
LowerTok(w) == [k \in 1..Len(w) |-> LowerChar(w[k])]
Lower(t) == [k \in 1..Len(t) |-> LowerTok(t[k])]

\* .replace("á","a").replace("é","e").replace("í","i").replace("ó","o").replace("ú","u")
StripAccents(w) ==
    [k \in 1..Len(w) |->
        IF \E j \in 1..5 : AccentLower[j] = w[k]
        THEN AccentPlain[CHOOSE j \in 1..5 : AccentLower[j] = w[k]]
        ELSE w[k]]

IsDigits(w) == Len(w) >= 1 /\ \A k \in 1..Len(w) : w[k] \in DigitSet
IsLetters(w) == Len(w) >= 1 /\ \A k \in 1..Len(w) : w[k] \in LetterSet

\* int() of a digit string
RECURSIVE ToInt(_)
ToInt(w) == IF Len(w) = 0 THEN 0
          ELSE 10 * ToInt(SubSeq(w, 1, Len(w) - 1)) + DigitVal(w[Len(w)])

\* str() of an int in 0..99, as f"{day}" formats it
Str(n) == IF n < 10 THEN <<Digits[n + 1]>>
          ELSE <<Digits[(n \div 10) + 1], Digits[(n % 10) + 1]>>

-----------------------------------------------------------------------------
(* datetime.date *)

IsLeap(y) == (y % 4 = 0) /\ ((y % 100 # 0) \/ (y % 400 = 0))

DaysInMonth(y, m) ==
    IF m = 2 THEN (IF IsLeap(y) THEN 29 ELSE 28)
    ELSE IF m \in {4, 6, 9, 11} THEN 30 ELSE 31

\* date(y, m, d): the date, or ValueError when the triple is no calendar date
date(y, m, dd) ==
    IF y \in 1..9999 /\ m \in 1..12 /\ dd >= 1 /\ dd <= DaysInMonth(y, m)
    THEN [kind |-> "date", year |-> y, month |-> m, day |-> dd]
    ELSE ValueError

IsDate(x) == x.kind = "date"

RECURSIVE DaysBeforeMonth(_, _)
DaysBeforeMonth(y, m) ==
    IF m = 1 THEN 0 ELSE DaysBeforeMonth(y, m - 1) + DaysInMonth(y, m - 1)

\* date.toordinal(): 0001-01-01 is day 1
ToOrdinal(x) ==
    LET y1 == x.year - 1
    IN  y1 * 365 + (y1 \div 4) - (y1 \div 100) + (y1 \div 400)
        + DaysBeforeMonth(x.year, x.month) + x.day

\* date.weekday(): lunes=0 ... domingo=6
Weekday(x) == (ToOrdinal(x) + 6) % 7

Tomorrow(x) ==
    IF x.day < DaysInMonth(x.year, x.month)
    THEN [x EXCEPT !.day = x.day + 1]
    ELSE IF x.month < 12
    THEN [x EXCEPT !.month = x.month + 1, !.day = 1]
    ELSE [x EXCEPT !.year = x.year + 1, !.month = 1, !.day = 1]

\* x + timedelta(days=n), n >= 0
RECURSIVE PlusDays(_, _)
PlusDays(x, n) == IF n = 0 THEN x ELSE PlusDays(Tomorrow(x), n - 1)

\* all calendar dates of the years y0 .. y1
DatesOfYears(y0, y1) ==
    {x \in [kind : {"date"}, year : y0..y1, month : 1..12, day : 1..31] :
        x.day <= DaysInMonth(x.year, x.month)}

-----------------------------------------------------------------------------
(* madrid_weekend_window *)

\* days_to_friday without the Saturday/Sunday correction of its sign
DaysToFridayAbs(weekday) == IF 4 - weekday < 0 THEN weekday - 4 ELSE 4 - weekday

DaysToFriday(weekday) ==
    LET days_to_friday == 4 - weekday
    IN  IF days_to_friday < 0 THEN days_to_friday + 7 ELSE days_to_friday

MadridWeekendWindow(today_madrid) ==
    LET fri == PlusDays(today_madrid, DaysToFriday(Weekday(today_madrid)))
    IN  <<fri, PlusDays(fri, 1)>>

-----------------------------------------------------------------------------
(* SPANISH_MONTHS, parse_spanish_date_str, attach_year *)

SPANISH_MONTHS ==
    { <<<<"e","n","e","r","o">>, 1>>,
      <<<<"f","e","b","r","e","r","o">>, 2>>,
      <<<<"m","a","r","z","o">>, 3>>,
      <<<<"a","b","r","i","l">>, 4>>,
      <<<<"m","a","y","o">>, 5>>,
      <<<<"j","u","n","i","o">>, 6>>,
      <<<<"j","u","l","i","o">>, 7>>,
      <<<<"a","g","o","s","t","o">>, 8>>,
      <<<<"s","e","p","t","i","e","m","b","r","e">>, 9>>,
      <<<<"s","e","t","i","e","m","b","r","e">>, 9>>,
      <<<<"o","c","t","u","b","r","e">>, 10>>,
      <<<<"n","o","v","i","e","m","b","r","e">>, 11>>,
      <<<<"d","i","c","i","e","m","b","r","e">>, 12>>,
      <<<<"e","n","e">>, 1>>,
      <<<<"f","e","b">>, 2>>,
      <<<<"m","a","r">>, 3>>,
      <<<<"a","b","r">>, 4>>,
      <<<<"m","a","y">>, 5>>,
      <<<<"j","u","n">>, 6>>,
      <<<<"j","u","l">>, 7>>,
      <<<<"a","g","o">>, 8>>,
      <<<<"s","e","p">>, 9>>,
      <<<<"o","c","t">>, 10>>,
      <<<<"n","o","v">>, 11>>,
      <<<<"d","i","c">>, 12>> }

\* SPANISH_MONTHS.get(key): the month number, or 0 for the falsy None
SpanishMonthsGet(key) ==
    IF \E e \in SPANISH_MONTHS : e[1] = key
    THEN (CHOOSE e \in SPANISH_MONTHS : e[1] = key)[2]
    ELSE 0

WordDe == <<"d","e">>

\* \b(\d{1,2})\s+de\s+([a-záéíóú]+)\s+de\s+(\d{4})\b matches at token k
Shape1At(t, k) ==
    /\ k + 4 <= Len(t)
    /\ IsDigits(t[k]) /\ Len(t[k]) <= 2
    /\ t[k + 1] = WordDe
    /\ IsLetters(t[k + 2])
    /\ t[k + 3] = WordDe
    /\ IsDigits(t[k + 4]) /\ Len(t[k + 4]) = 4

\* \b(\d{1,2})\s+([a-záéíóú]{3,})\b matches at token k
Shape2At(t, k) ==
    /\ k + 1 <= Len(t)
    /\ IsDigits(t[k]) /\ Len(t[k]) <= 2
    /\ IsLetters(t[k + 1]) /\ Len(t[k + 1]) >= 3

\* re.search: the leftmost match, 0 when there is none
Search1(t) ==
    IF \E k \in 1..Len(t) : Shape1At(t, k)
    THEN CHOOSE k \in 1..Len(t) : Shape1At(t, k) /\ \A j \in 1..(k - 1) : ~Shape1At(t, j)
    ELSE 0

Search2(t) ==
    IF \E k \in 1..Len(t) : Shape2At(t, k)
    THEN CHOOSE k \in 1..Len(t) : Shape2At(t, k) /\ \A j \in 1..(k - 1) : ~Shape2At(t, j)
    ELSE 0

\* the year-less branch: date(1900, mon, d) or None
ParseYearless(t) ==
    LET k == Search2(t)
    IN  IF k = 0 THEN None
        ELSE LET dd == ToInt(t[k])
                 mon == SpanishMonthsGet(StripAccents(t[k + 1]))
             IN  IF mon # 0 THEN date(PlaceholderYear, mon, dd) ELSE None

\* parse_spanish_date_str(s): a date, None, or the ValueError date() raises
ParseSpanishDateStr(str) ==
    IF str = <<>> THEN None
    ELSE LET t == Lower(str)
             k == Search1(t)
         IN  IF k # 0 /\ SpanishMonthsGet(StripAccents(t[k + 2])) # 0
             THEN date(ToInt(t[k + 4]), SpanishMonthsGet(StripAccents(t[k + 2])),
                       ToInt(t[k]))
             ELSE ParseYearless(t)

\* attach_year leaving the placeholder year in place
AttachYearKeep(dt, today_madrid) == dt

\* attach_year(d, today_madrid)
AttachYear(dt, today_madrid) ==
    IF dt.year # PlaceholderYear THEN dt
    ELSE LET y == today_madrid.year
             candidate == date(y, dt.month, dt.day)
         IN  IF ~IsDate(candidate) THEN ValueError
             ELSE IF today_madrid.month = 12 /\ candidate.month = 1
             THEN date(y + 1, dt.month, dt.day)
             ELSE candidate

-----------------------------------------------------------------------------
(* parse_events_from_tempo_club *)

\* A document is the sequence of its elements in document order: a text node
\* [tag |-> "text", text, href |-> <<>>] or an anchor [tag |-> "a", text, href].

\* needle in haystack, for two strings
Contains(hay, needle) ==
    \E k \in 0..(Len(hay) - Len(needle)) :
        SubSeq(hay, k + 1, k + Len(needle)) = needle

\* "+ info" in label, label being the anchor's lower-cased, space-joined text
HasInfoMarker(label) ==
    \E k \in 1..(Len(label) - 1) :
        /\ label[k][Len(label[k])] = "+"
        /\ Len(label[k + 1]) >= 4
        /\ SubSeq(label[k + 1], 1, 4) = <<"i","n","f","o">>

\* text_lines: the non-empty stripped lines of soup.get_text("\n")
RECURSIVE TextLines(_)
TextLines(doc) ==
    IF doc = <<>> THEN <<>>
    ELSE (IF Head(doc).text # <<>> THEN <<Head(doc).text>> ELSE <<>>)
         \o TextLines(Tail(doc))

\* info_links: the href of every anchor labelled "+ info", in document order
RECURSIVE InfoLinks(_)
InfoLinks(doc) ==
    IF doc = <<>> THEN <<>>
    ELSE (IF /\ Head(doc).tag = "a"
             /\ HasInfoMarker(Lower(Head(doc).text))
             /\ Head(doc).href # <<>>
          THEN <<Head(doc).href>> ELSE <<>>)
         \o InfoLinks(Tail(doc))

\* [0-2]?\d:\d{2}
IsTime(w) ==
    \/ /\ Len(w) = 4
       /\ w[1] \in DigitSet /\ w[2] = ":" /\ w[3] \in DigitSet /\ w[4] \in DigitSet
    \/ /\ Len(w) = 5
       /\ w[1] \in {"0", "1", "2"} /\ w[2] \in DigitSet /\ w[3] = ":"
       /\ w[4] \in DigitSet /\ w[5] \in DigitSet

\* re.match(r"^(\d{1,2})\s+([a-záéíóú]+)\s*\|\s*([0-2]?\d:\d{2})$", ln)
HeaderMatch(ln) ==
    /\ Len(ln) = 4
    /\ IsDigits(ln[1]) /\ Len(ln[1]) <= 2
    /\ IsLetters(ln[2])
    /\ ln[3] = <<"|">>
    /\ IsTime(ln[4])

Event(title, venue, event_date, event_time, url, source_url, raw_genre_text) ==
    [title |-> title, venue |-> venue, event_date |-> event_date,
     event_time |-> event_time, url |-> url, source_url |-> source_url,
     raw_genre_text |-> raw_genre_text]

\* the locals of the loop when it is entered
TempoStart == [i |-> 0, info_idx |-> 0, events |-> <<>>, status |-> "loop"]

\* the date-header branch of the loop body, the header being line i (0-based)
TempoHeader(loc, text_lines, info_links, src, today_madrid) ==
    LET ln == Lower(text_lines[loc.i + 1])
        day == ToInt(ln[1])
        mon == ln[2]
        hhmm == ln[4]
        dp == ParseSpanishDateStr(<<Str(day), mon>>)
    IN  IF dp = ValueError THEN [loc EXCEPT !.status = "raised"]
        ELSE IF dp = None THEN [loc EXCEPT !.i = loc.i + 2]
        ELSE LET dt == AttachYear(dp, today_madrid)
                 title == text_lines[loc.i + 2]
                 url == IF loc.info_idx < Len(info_links)
                        THEN info_links[loc.info_idx + 1] ELSE src.url
             IN  IF dt = ValueError THEN [loc EXCEPT !.status = "raised"]
                 ELSE [loc EXCEPT
                         !.info_idx = IF loc.info_idx < Len(info_links)
                                      THEN loc.info_idx + 1 ELSE loc.info_idx,
                         !.events = Append(loc.events,
                                      Event(title, src.name, dt, hhmm, url,
                                            src.url, title)),
                         !.i = loc.i + 2]

\* line i is handled as a date header: the pattern matches and a line follows
IsHeaderAt(loc, text_lines) ==
    /\ loc.i < Len(text_lines)
    /\ HeaderMatch(Lower(text_lines[loc.i + 1]))
    /\ loc.i + 1 < Len(text_lines)

\* one evaluation of the while condition and, when it holds, of the loop body
TempoBody(loc, text_lines, info_links, src, today_madrid) ==
    IF ~(loc.i < Len(text_lines)) THEN [loc EXCEPT !.status = "returned"]
    ELSE IF IsHeaderAt(loc, text_lines)
    THEN TempoHeader(loc, text_lines, info_links, src, today_madrid)
    ELSE [loc EXCEPT !.i = loc.i + 1]

RECURSIVE RunTempo(_, _, _, _, _)
RunTempo(loc, text_lines, info_links, src, today_madrid) ==
    IF loc.status # "loop" THEN loc
    ELSE RunTempo(TempoBody(loc, text_lines, info_links, src, today_madrid),
                  text_lines, info_links, src, today_madrid)

\* parse_events_from_tempo_club(html, source), reading today_madrid from the clock
ParseEventsFromTempoClub(doc, src, today_madrid) ==
    RunTempo(TempoStart, TextLines(doc), InfoLinks(doc), src, today_madrid)

-----------------------------------------------------------------------------
(* parse_events, collect_events *)

VenueSource(name, city, url, type, notes) ==
    [name |-> name, city |-> city, url |-> url, type |-> type, notes |-> notes]

\* what a parser hands back: the events it returns, or a raised fault
Returned(evs) == [status |-> "returned", events |-> evs]

\* parse_events(html, source): the router
ParseEvents(doc, src, today_madrid) ==
    LET u == LowerTok(src.url)
    IN  IF Contains(u, <<"t","e","a","t","r","o","d","e","l","b","a","r","r","i","o",".","c","o","m">>) THEN Returned(<<>>)
        ELSE IF Contains(u, <<"t","e","m","p","o","c","l","u","b",".","e","s">>)
        THEN LET r == ParseEventsFromTempoClub(doc, src, today_madrid)
             IN  [status |-> r.status, events |-> r.events]
        ELSE IF Contains(u, <<"c","a","f","e","b","e","r","l","i","n","e","n","t","r","a","d","a","s",".","c","o","m">>) THEN Returned(<<>>)
        ELSE IF Contains(u, <<"s","a","l","a","r","i","v","i","e","r","a",".","c","o","m">>) THEN Returned(<<>>)
        ELSE Returned(<<>>)

\* the try block with all_events = events in place of all_events.extend(events)
CollectTryAssign(all, doc, v, today_madrid) ==
    LET r == ParseEvents(doc, v, today_madrid)
    IN  IF r.status = "returned" THEN r.events ELSE all

\* all_events after the try block has run on a fetched document
CollectTry(all, doc, v, today_madrid) ==
    LET r == ParseEvents(doc, v, today_madrid)
    IN  IF r.status = "returned" THEN all \o r.events ELSE all

-----------------------------------------------------------------------------
(* filter_for_this_weekend, is_danceable, the final sort *)

\* the filter testing event_date against friday alone
OnlyFriday(evs, fri, sat) ==
    SelectSeq(evs, LAMBDA e : e.event_date = fri)

\* filter_for_this_weekend(events, friday, saturday)
RECURSIVE FilterForThisWeekend(_, _, _)
FilterForThisWeekend(evs, fri, sat) ==
    IF evs = <<>> THEN <<>>
    ELSE (IF Head(evs).event_date \in {fri, sat} THEN <<Head(evs)>> ELSE <<>>)
         \o FilterForThisWeekend(Tail(evs), fri, sat)

\* a line (title) as the string it is: its tokens joined by one space
RECURSIVE Join(_)
Join(line) ==
    IF line = <<>> THEN <<>>
    ELSE IF Len(line) = 1 THEN line[1]
    ELSE line[1] \o <<" ">> \o Join(Tail(line))

DANCE_KEYWORDS ==
    { <<"s","o","u","l">>,
      <<"f","u","n","k">>,
      <<"f","u","n","k","y">>,
      <<"d","i","s","c","o">>,
      <<"g","r","o","o","v","e">>,
      <<"j","a","z","z">>,
      <<"j","a","z","z","-","f","u","n","k">>,
      <<"l","a","t","i","n">>,
      <<"l","a","t","i","n"," ","j","a","z","z">>,
      <<"p","o","p">>,
      <<"r","&","b">>,
      <<"r","h","y","t","h","m"," ","a","n","d"," ","b","l","u","e","s">>,
      <<"s","w","i","n","g">>,
      <<"b","i","g"," ","b","a","n","d">>,
      <<"b","a","i","l","e">>,
      <<"d","a","n","c","e">>,
      <<"f","i","e","s","t","a">>,
      <<"d","j"," ","s","e","t">>,
      <<"j","a","m">> }

\* is_danceable(text)
IsDanceable(text) ==
    LET t == LowerTok(text)
    IN  \E k \in DANCE_KEYWORDS : Contains(t, k)

\* the loop of main that keeps the danceable events
RECURSIVE DanceFilter(_)
DanceFilter(evs) ==
    IF evs = <<>> THEN <<>>
    ELSE (IF IsDanceable(Join(Head(evs).title) \o <<" ">>
                         \o Join(Head(evs).raw_genre_text))
          THEN <<Head(evs)>> ELSE <<>>)
         \o DanceFilter(Tail(evs))

\* the None of an Optional[str]
NoneStr == <<"None">>

\* ord(c)
CodePoints ==
    { <<" ", 32>>, <<"+", 43>>, <<"&", 38>>, <<"-", 45>>, <<".", 46>>, <<"/", 47>>,
      <<":", 58>>, <<"|", 124>>, <<"0", 48>>, <<"1", 49>>, <<"2", 50>>, <<"3", 51>>,
      <<"4", 52>>, <<"5", 53>>, <<"6", 54>>, <<"7", 55>>, <<"8", 56>>, <<"9", 57>>,
      <<"A", 65>>, <<"B", 66>>, <<"C", 67>>, <<"D", 68>>, <<"E", 69>>, <<"F", 70>>,
      <<"G", 71>>, <<"H", 72>>, <<"I", 73>>, <<"J", 74>>, <<"K", 75>>, <<"L", 76>>,
      <<"M", 77>>, <<"N", 78>>, <<"O", 79>>, <<"P", 80>>, <<"Q", 81>>, <<"R", 82>>,
      <<"S", 83>>, <<"T", 84>>, <<"U", 85>>, <<"V", 86>>, <<"W", 87>>, <<"X", 88>>,
      <<"Y", 89>>, <<"Z", 90>>, <<"a", 97>>, <<"b", 98>>, <<"c", 99>>, <<"d", 100>>,
      <<"e", 101>>, <<"f", 102>>, <<"g", 103>>, <<"h", 104>>, <<"i", 105>>, <<"j", 106>>,
      <<"k", 107>>, <<"l", 108>>, <<"m", 109>>, <<"n", 110>>, <<"o", 111>>, <<"p", 112>>,
      <<"q", 113>>, <<"r", 114>>, <<"s", 115>>, <<"t", 116>>, <<"u", 117>>, <<"v", 118>>,
      <<"w", 119>>, <<"x", 120>>, <<"y", 121>>, <<"z", 122>>, <<"Á", 193>>, <<"É", 201>>,
      <<"Í", 205>>, <<"Ó", 211>>, <<"Ú", 218>>, <<"á", 225>>, <<"é", 233>>, <<"í", 237>>,
      <<"ó", 243>>, <<"ú", 250>> }
Ord(c) == (CHOOSE e \in CodePoints : e[1] = c)[2]

\* Python's a < b and a == b on strings: by code point, a prefix sorts first
RECURSIVE StrLess(_, _)
StrLess(a, b) ==
    IF b = <<>> THEN FALSE
    ELSE IF a = <<>> THEN TRUE
    ELSE IF Ord(Head(a)) # Ord(Head(b)) THEN Ord(Head(a)) < Ord(Head(b))
    ELSE StrLess(Tail(a), Tail(b))

DateLess(a, b) ==
    \/ a.year < b.year
    \/ a.year = b.year /\ a.month < b.month
    \/ a.year = b.year /\ a.month = b.month /\ a.day < b.day

\* e.event_time or "99:99"
TimeKey(e) ==
    IF e.event_time = NoneStr \/ e.event_time = <<>>
    THEN <<"9","9",":","9","9">> ELSE e.event_time

\* key(a) < key(b) for key = (event_date, event_time or "99:99", venue, title)
KeyLess(a, b) ==
    \/ DateLess(a.event_date, b.event_date)
    \/ /\ a.event_date = b.event_date
       /\ \/ StrLess(TimeKey(a), TimeKey(b))
          \/ /\ TimeKey(a) = TimeKey(b)
             /\ \/ StrLess(a.venue, b.venue)
                \/ /\ a.venue = b.venue
                   /\ StrLess(Join(a.title), Join(b.title))

\* e put into a sorted list behind every element whose key is not greater
RECURSIVE InsertSorted(_, _)
InsertSorted(sorted, e) ==
    IF sorted = <<>> THEN <<e>>
    ELSE IF KeyLess(e, Head(sorted)) THEN <<e>> \o sorted
    ELSE <<Head(sorted)>> \o InsertSorted(Tail(sorted), e)

\* list.sort(key=...): the stable sort
RECURSIVE SortEvents(_)
SortEvents(evs) ==
    IF evs = <<>> THEN <<>>
    ELSE InsertSorted(SortEvents(SubSeq(evs, 1, Len(evs) - 1)), evs[Len(evs)])

-----------------------------------------------------------------------------
(* Inputs of the checked runs *)

SeqsUpTo(pool, n) == UNION {[1..k -> pool] : k \in 0..n}

TextNode(line) == [tag |-> "text", text |-> line, href |-> <<>>]
Anchor(label, href) == [tag |-> "a", text |-> label, href |-> href]

TitleJazz == <<<<"N","o","c","h","e">>, <<"d","e">>, <<"J","a","z","z">>>>
TitleFunk == <<<<"F","u","n","k">>, <<"J","a","m">>>>
TitlePiano == <<<<"R","e","c","i","t","a","l">>, <<"d","e">>, <<"p","i","a","n","o">>>>

\* elements a listing page is made of
ElemPool ==
    { TextNode(<<<<"2","9">>, <<"e","n","e","r","o">>, <<"|">>, <<"2","1",":","0","0">>>>),
      TextNode(<<<<"3","0">>, <<"E","N","E">>, <<"|">>, <<"9",":","3","0">>>>),
      TextNode(<<<<"2","9">>, <<"f","o","o">>, <<"|">>, <<"2","1",":","0","0">>>>),
      TextNode(<<<<"3","1">>, <<"f","e","b">>, <<"|">>, <<"2","0",":","0","0">>>>),
      TextNode(TitleJazz),
      Anchor(<<<<"+">>, <<"i","n","f","o">>>>, <<"/","e","1">>),
      Anchor(<<<<"+">>, <<"I","N","F","O">>>>, <<"/","e","2">>) }

TempoSource ==
    VenueSource(<<"T","e","m","p","o">>, <<"M","a","d","r","i","d">>, <<"h","t","t","p","s",":","/","/","w","w","w",".","T","e","m","p","o","C","l","u","b",".","e","s","/","a","g","e","n","d","a">>, "html", <<>>)
TeatroSource ==
    VenueSource(<<"T","e","a","t","r","o">>, <<"M","a","d","r","i","d">>, <<"h","t","t","p","s",":","/","/","t","e","a","t","r","o","d","e","l","b","a","r","r","i","o",".","c","o","m","/">>, "html", <<>>)
RivieraSource ==
    VenueSource(<<"R","i","v","i","e","r","a">>, <<"M","a","d","r","i","d">>, <<"h","t","t","p","s",":","/","/","s","a","l","a","r","i","v","i","e","r","a",".","c","o","m","/">>, "js", <<>>)
OtherSource ==
    VenueSource(<<"O","t","r","o">>, <<"M","a","d","r","i","d">>, <<"h","t","t","p","s",":","/","/","e","x","a","m","p","l","e",".","o","r","g","/">>, "html", <<>>)

VenuePool == {TempoSource, TeatroSource, RivieraSource, OtherSource}

DocTwoEvents ==
    << TextNode(<<<<"2","9">>, <<"e","n","e","r","o">>, <<"|">>, <<"2","1",":","0","0">>>>), TextNode(TitleJazz),
       Anchor(<<<<"+">>, <<"i","n","f","o">>>>, <<"/","e","1">>),
       TextNode(<<<<"3","0">>, <<"E","N","E">>, <<"|">>, <<"9",":","3","0">>>>), TextNode(TitleFunk) >>
DocOneEvent == << TextNode(<<<<"3","0">>, <<"E","N","E">>, <<"|">>, <<"9",":","3","0">>>>), TextNode(TitlePiano) >>
DocBadDay == << TextNode(<<<<"3","1">>, <<"f","e","b">>, <<"|">>, <<"2","0",":","0","0">>>>), TextNode(TitleJazz) >>

\* what fetch_html(v.url) does: it raises, or returns a document
FetchPool ==
    { [kind |-> "fault", doc |-> <<>>] }
    \cup {[kind |-> "html", doc |-> x] : x \in {DocTwoEvents, DocOneEvent, DocBadDay}}

\* tokens of the texts given to parse_spanish_date_str
DateVocab ==
    { <<"0">>, <<"2","9">>, <<"3","1">>, <<"0","7">>, <<"d","e">>, <<"e","n","e","r","o">>, <<"F","e","b">>, <<"f","o","o">>, <<"f","e","b","r","é","r","o">> }

\* texts of the shape <n> <w> <month> <w> <year>
DateTextsLong ==
    { <<n, w1, m, w2, y>> :
        n \in {<<"0">>, <<"2","9">>, <<"3","0">>, <<"3","1">>},
        w1 \in {<<"d","e">>, <<"f","o","o">>}, m \in {<<"e","n","e","r","o">>, <<"f","e","b">>, <<"F","e","b","r","é","r","o">>, <<"f","o","o">>},
        w2 \in {<<"d","e">>, <<"d","e","l">>}, y \in {<<"2","0","2","6">>, <<"2","0","2","4">>, <<"1","9","0","0">>, <<"0","0","0","0">>} }

DateTexts == SeqsUpTo(DateVocab, MaxTokens) \cup DateTextsLong

DateTodays == { [kind |-> "date", year |-> 2025, month |-> 12, day |-> 15], [kind |-> "date", year |-> 2025, month |-> 3, day |-> 1], [kind |-> "date", year |-> 2024, month |-> 12, day |-> 31] }
TempoTodays == { [kind |-> "date", year |-> 2025, month |-> 12, day |-> 15], [kind |-> "date", year |-> 2026, month |-> 1, day |-> 28] }
CollectToday == [kind |-> "date", year |-> 2026, month |-> 1, day |-> 28]
MainTodays == { [kind |-> "date", year |-> 2026, month |-> 1, day |-> 28], [kind |-> "date", year |-> 2026, month |-> 1, day |-> 30], [kind |-> "date", year |-> 2026, month |-> 1, day |-> 31] }

VenueA == <<"C","a","f","e"," ","B","e","r","l","i","n">>
VenueB == <<"T","e","m","p","o">>

MainEvent(dt, tm, venue, title) ==
    Event(title, venue, dt, tm, <<"h","t","t","p","s",":","/","/","e","x","a","m","p","l","e",".","o","r","g","/">>, <<"h","t","t","p","s",":","/","/","e","x","a","m","p","l","e",".","o","r","g","/">>, title)

\* events handed to the filter and the sort
EventPool ==
    { MainEvent([kind |-> "date", year |-> 2026, month |-> 1, day |-> 30], <<"2","1",":","0","0">>, VenueA, TitleJazz),
      MainEvent([kind |-> "date", year |-> 2026, month |-> 1, day |-> 30], <<"9",":","3","0">>, VenueA, TitleJazz),
      MainEvent([kind |-> "date", year |-> 2026, month |-> 1, day |-> 30], NoneStr, VenueA, TitleJazz),
      MainEvent([kind |-> "date", year |-> 2026, month |-> 1, day |-> 30], <<"2","1",":","0","0">>, VenueB, TitleJazz),
      MainEvent([kind |-> "date", year |-> 2026, month |-> 1, day |-> 30], <<"2","1",":","0","0">>, VenueA, TitleFunk),
      MainEvent([kind |-> "date", year |-> 2026, month |-> 1, day |-> 31], <<"0","9",":","3","0">>, VenueA, TitleJazz),
      MainEvent([kind |-> "date", year |-> 2026, month |-> 1, day |-> 29], <<"2","1",":","0","0">>, VenueA, TitleJazz),
      MainEvent([kind |-> "date", year |-> 2026, month |-> 1, day |-> 31], <<"2","1",":","0","0">>, VenueA, TitlePiano) }

-----------------------------------------------------------------------------
(* Specification of madrid_weekend_window *)

Idle ==
    /\ s = <<>> /\ d0 = None /\ d = None
    /\ source = TempoSource /\ html = <<>> /\ st = TempoStart /\ hist = <<>>
    /\ venues = <<>> /\ web = <<>> /\ vi = 0
    /\ weekend_events = <<>> /\ dance_events = <<>>
    /\ friday = None /\ saturday = None

InitWindow ==
    /\ pc = "main"
    /\ today \in DatesOfYears(WinFirstYear, WinFirstYear + WinYears - 1)
    /\ all_events = <<>>
    /\ Idle

\* friday, saturday = madrid_weekend_window(today_madrid)
WindowStep ==
    /\ pc = "main"
    /\ friday' = MadridWeekendWindow(today)[1]
    /\ saturday' = MadridWeekendWindow(today)[2]
    /\ pc' = "window"
    /\ UNCHANGED <<today, s, d0, d, source, html, st, hist, venues, web, vi,
                   all_events, weekend_events, dance_events>>

NextWindow == WindowStep

SpecWindow == InitWindow /\ [][NextWindow]_vars

-----------------------------------------------------------------------------
(* Specification of parse_spanish_date_str followed by attach_year *)

InitDate ==
    /\ pc = "parse"
    /\ today \in DateTodays
    /\ s \in DateTexts
    /\ d0 = None /\ d = None
    /\ source = TempoSource /\ html = <<>> /\ st = TempoStart /\ hist = <<>>
    /\ venues = <<>> /\ web = <<>> /\ vi = 0 /\ all_events = <<>>
    /\ weekend_events = <<>> /\ dance_events = <<>>
    /\ friday = None /\ saturday = None

\* d0 = parse_spanish_date_str(s)
ParseStep ==
    /\ pc = "parse"
    /\ d0' = ParseSpanishDateStr(s)
    /\ pc' = IF d0' = ValueError THEN "raised" ELSE "parsed"
    /\ UNCHANGED <<today, friday, saturday, s, d, source, html, st, hist, venues,
                   web, vi, all_events, weekend_events, dance_events>>

\* d = attach_year(d0, today_madrid), for a d0 that is a date
AttachStep ==
    /\ pc = "parsed"
    /\ IsDate(d0)
    /\ d' = AttachYear(d0, today)
    /\ pc' = "attached"
    /\ UNCHANGED <<today, friday, saturday, s, d0, source, html, st, hist, venues,
                   web, vi, all_events, weekend_events, dance_events>>

NextDate == ParseStep \/ AttachStep

SpecDate == InitDate /\ [][NextDate]_vars

-----------------------------------------------------------------------------
(* Specification of parse_events_from_tempo_club *)

InitTempo ==
    /\ pc = "tempo"
    /\ today \in TempoTodays
    /\ html \in SeqsUpTo(ElemPool, MaxElems)
    /\ source = TempoSource
    /\ st = TempoStart
    /\ hist = <<>>
    /\ s = <<>> /\ d0 = None /\ d = None
    /\ venues = <<>> /\ web = <<>> /\ vi = 0 /\ all_events = <<>>
    /\ weekend_events = <<>> /\ dance_events = <<>>
    /\ friday = None /\ saturday = None

\* one test of the while condition and one pass of the loop body
TempoStep ==
    /\ pc = "tempo"
    /\ st.status = "loop"
    /\ st' = TempoBody(st, TextLines(html), InfoLinks(html), source, today)
    /\ hist' = IF IsHeaderAt(st, TextLines(html))
               THEN Append(hist, [line |-> st.i,
                                  ev |-> IF Len(st'.events) > Len(st.events)
                                         THEN Len(st'.events) ELSE 0])
               ELSE hist
    /\ UNCHANGED <<pc, today, friday, saturday, s, d0, d, source, html, venues,
                   web, vi, all_events, weekend_events, dance_events>>

NextTempo == TempoStep

SpecTempo == InitTempo /\ [][NextTempo]_vars

-----------------------------------------------------------------------------
(* Specification of collect_events *)

InitCollect ==
    /\ pc = "collect"
    /\ today = CollectToday
    /\ venues \in SeqsUpTo(VenuePool, MaxVenues)
    /\ web \in [1..Len(venues) -> FetchPool]
    /\ vi = 0
    /\ all_events = <<>>
    /\ s = <<>> /\ d0 = None /\ d = None
    /\ source = TempoSource /\ html = <<>> /\ st = TempoStart /\ hist = <<>>
    /\ weekend_events = <<>> /\ dance_events = <<>>
    /\ friday = None /\ saturday = None

CollectFrame ==
    UNCHANGED <<pc, today, friday, saturday, s, d0, d, source, html, st, hist,
                venues, web, weekend_events, dance_events>>

\* v.type != "html": warn and continue
CollectSkip ==
    /\ pc = "collect" /\ vi < Len(venues)
    /\ venues[vi + 1].type # "html"
    /\ vi' = vi + 1
    /\ all_events' = all_events
    /\ CollectFrame

\* fetch_html raises: the except block reports it
CollectFetchFault ==
    /\ pc = "collect" /\ vi < Len(venues)
    /\ venues[vi + 1].type = "html"
    /\ web[vi + 1].kind = "fault"
    /\ vi' = vi + 1
    /\ all_events' = all_events
    /\ CollectFrame

\* fetch_html returns: parse, and extend unless the parser raises
CollectParse ==
    /\ pc = "collect" /\ vi < Len(venues)
    /\ venues[vi + 1].type = "html"
    /\ web[vi + 1].kind = "html"
    /\ vi' = vi + 1
    /\ all_events' = CollectTry(all_events, web[vi + 1].doc, venues[vi + 1], today)
    /\ CollectFrame

\* return all_events
CollectReturn ==
    /\ pc = "collect" /\ vi = Len(venues)
    /\ pc' = "collected"
    /\ UNCHANGED <<today, friday, saturday, s, d0, d, source, html, st, hist,
                   venues, web, vi, all_events, weekend_events, dance_events>>

NextCollect == CollectSkip \/ CollectFetchFault \/ CollectParse \/ CollectReturn

SpecCollect == InitCollect /\ [][NextCollect]_vars

-----------------------------------------------------------------------------
(* Specification of main from the window to the sorted listing *)

InitMain ==
    /\ pc = "main"
    /\ today \in MainTodays
    /\ all_events \in SeqsUpTo(EventPool, MaxEvents)
    /\ Idle

\* weekend_events = filter_for_this_weekend(all_events, friday, saturday)
FilterStep ==
    /\ pc = "window"
    /\ weekend_events' = FilterForThisWeekend(all_events, friday, saturday)
    /\ pc' = "filtered"
    /\ UNCHANGED <<today, friday, saturday, s, d0, d, source, html, st, hist,
                   venues, web, vi, all_events, dance_events>>

\* dance_events = the danceable weekend events
DanceStep ==
    /\ pc = "filtered"
    /\ dance_events' = DanceFilter(weekend_events)
    /\ pc' = "dance"
    /\ UNCHANGED <<today, friday, saturday, s, d0, d, source, html, st, hist,
                   venues, web, vi, all_events, weekend_events>>

\* dance_events.sort(key=...)
SortStep ==
    /\ pc = "dance"
    /\ dance_events' = SortEvents(dance_events)
    /\ pc' = "sorted"
    /\ UNCHANGED <<today, friday, saturday, s, d0, d, source, html, st, hist,
                   venues, web, vi, all_events, weekend_events>>

NextMain == WindowStep \/ FilterStep \/ DanceStep \/ SortStep

SpecMain == InitMain /\ [][NextMain]_vars

-----------------------------------------------------------------------------
(* Properties *)

\* a record that is a calendar date
WellFormedDate(x) == IsDate(x) /\ date(x.year, x.month, x.day) = x

RECURSIVE C2_Expected(_)
C2_Expected(k) ==
    IF k = 0 THEN <<>>
    ELSE C2_Expected(k - 1) \o
         (IF /\ venues[k].type = "html"
             /\ web[k].kind = "html"
             /\ ParseEvents(web[k].doc, venues[k], today).status = "returned"
          THEN ParseEvents(web[k].doc, venues[k], today).events
          ELSE <<>>)

\* the loop of collect_events can take its next step, or has returned
C2_CanStep ==
    \/ vi = Len(venues)
    \/ /\ vi < Len(venues)
       /\ \/ venues[vi + 1].type # "html"
          \/ web[vi + 1].kind \in {"fault", "html"}

\* C2: collect_events goes through the sources in list order, one per pass,
\* always reaches its return, and all_events is exactly the concatenation, in
\* source order, of the events parsed from the html sources whose fetch and
\* parse both succeeded; a failing or non-html source adds nothing and stops
\* nothing.
C2_CollectConcatenates ==
    pc \in {"collect", "collected"} =>
        /\ vi \in 0..Len(venues)
        /\ all_events = C2_Expected(vi)
        /\ (pc = "collect" => C2_CanStep)
        /\ (pc = "collected" => vi = Len(venues))

\* a source whose fetch fails, then a source that yields two events
C2_Witness ==
    /\ pc = "collected"
    /\ Len(venues) = 2
    /\ venues[1].type = "html" /\ web[1].kind = "fault"
    /\ Len(all_events) = 2

\* C3: parse_spanish_date_str never raises: it returns a date or None for
\* every text, and None when neither shape matches or the month token of the
\* matched shape is not in the month table.
C3_ParseNeverRaises ==
    /\ pc # "raised"
    /\ d0 # ValueError
    /\ pc = "parsed" =>
         LET t == Lower(s)
         IN  /\ (Search1(t) = 0 /\ Search2(t) = 0) => d0 = None
             /\ (/\ Search1(t) = 0 /\ Search2(t) # 0
                 /\ SpanishMonthsGet(StripAccents(t[Search2(t) + 1])) = 0)
                => d0 = None

\* the text carries an explicit year: the first shape matches a known month
C4_ExplicitYear ==
    LET t == Lower(s)
    IN  /\ Search1(t) # 0
        /\ SpanishMonthsGet(StripAccents(t[Search1(t) + 2])) # 0

\* C4: attach_year gives a year-less date the year of today, or the next year
\* when today is in December and the date in January, keeping day and month;
\* a date parsed with an explicit year is returned unchanged.
C4_AttachYearPolicy ==
    pc = "attached" =>
        IF C4_ExplicitYear THEN d = d0
        ELSE d = [d0 EXCEPT !.year = IF today.month = 12 /\ d0.month = 1
                                     THEN today.year + 1 ELSE today.year]

\* the date parse_spanish_date_str gets from a date-header line
HeaderDate(line) ==
    LET ln == Lower(line)
    IN  ParseSpanishDateStr(<<Str(ToInt(ln[1])), ln[2]>>)

\* C5: every Event the parser emits has a fully resolved event_date, never the
\* placeholder year 1900, and a date header whose date cannot be resolved
\* produces no Event.
C5_EventsFullyDated ==
    /\ \A k \in 1..Len(st.events) :
         LET e == st.events[k].event_date
         IN  /\ WellFormedDate(e)
             /\ e.year # PlaceholderYear
             /\ e.year \in {today.year, today.year + 1}
    /\ \A n \in 1..Len(hist) :
         ~IsDate(HeaderDate(TextLines(html)[hist[n].line + 1])) => hist[n].ev = 0
    /\ Cardinality({n \in 1..Len(hist) : hist[n].ev # 0}) = Len(st.events)

\* a returned parse with a dropped header and a January event read in December
C5_Witness ==
    /\ st.status = "returned"
    /\ \E n \in 1..Len(hist) : hist[n].ev = 0
    /\ \E k \in 1..Len(st.events) :
         /\ st.events[k].event_date.year = today.year + 1
         /\ st.events[k].event_date.month = 1

\* the positions of all_events whose date is friday or saturday
C6_Matching ==
    {j \in 1..Len(all_events) :
        all_events[j].event_date = friday \/ all_events[j].event_date = saturday}

\* C6: filter_for_this_weekend returns exactly the subsequence of its input
\* whose event_date is friday or saturday: nothing else kept, nothing matching
\* dropped or doubled, input order kept.
C6_FilterKeepsExactlyWindow ==
    pc \in {"filtered", "dance", "sorted"} =>
        /\ Len(weekend_events) = Cardinality(C6_Matching)
        /\ \A j \in C6_Matching :
             weekend_events[Cardinality({x \in C6_Matching : x <= j})] = all_events[j]

\* a Friday and a Saturday event are kept and another event is dropped
C6_Witness ==
    /\ pc = "filtered"
    /\ Len(weekend_events) < Len(all_events)
    /\ \E k \in 1..Len(weekend_events) : weekend_events[k].event_date = friday
    /\ \E k \in 1..Len(weekend_events) : weekend_events[k].event_date = saturday

\* how often e occurs in evs
Occurrences(evs, e) == Cardinality({k \in 1..Len(evs) : evs[k] = e})

\* C7: after the final sort, an event without a time stands after every event
\* of its date that has one, whatever time string the parser emitted; events
\* of one date and time are ordered by venue, then title; and the sorted list
\* is a permutation of the list before the sort.
C7_NoneTimeLastAndTies ==
    pc = "sorted" =>
        /\ \A i, j \in 1..Len(dance_events) :
             (/\ dance_events[i].event_date = dance_events[j].event_date
              /\ dance_events[i].event_time = NoneStr
              /\ dance_events[j].event_time # NoneStr) => j < i
        /\ \A i, j \in 1..Len(dance_events) :
             (/\ i < j
              /\ dance_events[i].event_date = dance_events[j].event_date
              /\ dance_events[i].event_time = dance_events[j].event_time)
             => /\ ~StrLess(dance_events[j].venue, dance_events[i].venue)
                /\ dance_events[i].venue = dance_events[j].venue
                   => ~StrLess(Join(dance_events[j].title), Join(dance_events[i].title))
        /\ Len(dance_events) = Len(DanceFilter(weekend_events))
        /\ \A k \in 1..Len(dance_events) :
             Occurrences(dance_events, dance_events[k])
               = Occurrences(DanceFilter(weekend_events), dance_events[k])

\* the minutes since midnight a time string "H:MM" or "HH:MM" stands for
MinutesOfDay(w) ==
    LET c == CHOOSE k \in 1..Len(w) : w[k] = ":"
    IN  60 * ToInt(SubSeq(w, 1, c - 1)) + ToInt(SubSeq(w, c + 1, Len(w)))

\* C8: the final listing is chronological: of two listed events that both have
\* a time, the one listed first has the earlier or equal (date, time of day).
C8_ListingChronological ==
    pc = "sorted" =>
        \A i, j \in 1..Len(dance_events) :
            (/\ i < j
             /\ dance_events[i].event_time # NoneStr
             /\ dance_events[j].event_time # NoneStr)
            => /\ ~DateLess(dance_events[j].event_date, dance_events[i].event_date)
               /\ dance_events[j].event_date = dance_events[i].event_date
                  => MinutesOfDay(dance_events[i].event_time)
                       <= MinutesOfDay(dance_events[j].event_time)

\* C9: the info-link cursor stays aligned with the date headers: the event of
\* the n-th date-header line has the n-th "+ info" href as its url, or
\* source.url when fewer than n were collected, and the cursor never passes
\* the number of collected links.
C9_InfoLinkPerHeader ==
    /\ st.info_idx <= Len(InfoLinks(html))
    /\ \A n \in 1..Len(hist) :
         hist[n].ev # 0 =>
            st.events[hist[n].ev].url =
                IF n <= Len(InfoLinks(html)) THEN InfoLinks(html)[n] ELSE source.url

\* C10: a date header whose date cannot be resolved is dropped alone: the
\* parser raises no fault and still emits, in document order, one Event
\* (title: the next line, event_time: the matched time) for every other date
\* header it meets that has a resolvable date.
C10_UnresolvableDroppedAlone ==
    /\ st.status # "raised"
    /\ st.status = "returned" =>
         \A n \in 1..Len(hist) :
            LET line == TextLines(html)[hist[n].line + 1]
            IN  IsDate(HeaderDate(line)) =>
                  /\ hist[n].ev # 0
                  /\ st.events[hist[n].ev].title = TextLines(html)[hist[n].line + 2]
                  /\ st.events[hist[n].ev].event_time = Lower(line)[4]

=============================================================================
